---- MODULE Spec2Model ----
(***************************************************************************)
(* Model of export_resume.py: a command-line tool that copies resume.pdf   *)
(* into a directory under a configured base directory.                     *)
(*                                                                         *)
(* A string is a sequence of characters; a few multi-character words that  *)
(* the program only ever compares or appends as a whole ("BASE_DIR",       *)
(* "resume.pdf", "unknown", ...) are single elements of such a sequence.   *)
(* The filesystem is a function from absolute paths (sequences of          *)
(* component names) to nodes.                                              *)
(***************************************************************************)
EXTENDS Integers, Sequences, FiniteSets, TLC

(***************************************************************************)
(* Bounds of the model.                                                    *)
(***************************************************************************)
\* longest line typed at the prompt
MaxLen == 2
\* number of runs of main() in one behaviour
MaxRuns == 2

(***************************************************************************)
(* str methods.                                                            *)
(***************************************************************************)
Whitespace == {" ", "\n"}
Quotes == {"'", "\""}

RECURSIVE LStripChars(_, _)
LStripChars(s, chars) ==
    IF s # <<>> /\ Head(s) \in chars THEN LStripChars(Tail(s), chars) ELSE s

RECURSIVE RStripChars(_, _)
RStripChars(s, chars) ==
    IF s # <<>> /\ s[Len(s)] \in chars
    THEN RStripChars(SubSeq(s, 1, Len(s) - 1), chars)
    ELSE s

\* s.strip(chars)
StripChars(s, chars) == RStripChars(LStripChars(s, chars), chars)

\* s.strip()
Strip(s) == StripChars(s, Whitespace)

\* c in s
Contains(s, c) == \E i \in 1..Len(s) : s[i] = c

\* index of the first c in s (s contains c)
IndexOf(s, c) == CHOOSE i \in 1..Len(s) : s[i] = c /\ \A j \in 1..(i - 1) : s[j] # c

\* s.split(c, 1), for s containing c
SplitOnce(s, c) ==
    << SubSeq(s, 1, IndexOf(s, c) - 1), SubSeq(s, IndexOf(s, c) + 1, Len(s)) >>

\* s.startswith(c)
StartsWith(s, c) == s # <<>> /\ Head(s) = c

(***************************************************************************)
(* pathlib.  A Path is a record: abs (anchored at the root) and parts (the *)
(* component names).                                                       *)
(***************************************************************************)
\* the components of a path string: split at "/", empty components dropped
RECURSIVE Parts(_)
Parts(s) ==
    IF s = <<>> THEN <<>>
    ELSE IF Head(s) = "/" THEN Parts(Tail(s))
    ELSE IF Contains(s, "/")
         THEN << SubSeq(s, 1, IndexOf(s, "/") - 1) >>
              \o Parts(SubSeq(s, IndexOf(s, "/") + 1, Len(s)))
         ELSE << s >>

\* Path(s)
PathOf(s) == [abs |-> StartsWith(s, "/"), parts |-> Parts(s)]

\* p / s : an absolute right operand replaces the left one
PathJoin(p, s) ==
    IF StartsWith(s, "/") THEN PathOf(s)
    ELSE [abs |-> p.abs, parts |-> p.parts \o Parts(s)]

\* the working directory of the process
CWD == << <<"cwd">> >>

\* the absolute path the operating system resolves a Path to
Resolve(p) == IF p.abs THEN p.parts ELSE CWD \o p.parts

Parent(q) == SubSeq(q, 1, Len(q) - 1)

(***************************************************************************)
(* The filesystem: a function from the absolute paths that exist to nodes. *)
(* A node is a directory or a regular file; writable is the write          *)
(* permission of the (unprivileged) user running the tool.                 *)
(***************************************************************************)
DirNode(w) == [kind |-> "dir", content |-> <<>>, writable |-> w]
FileNode(c, w) == [kind |-> "file", content |-> c, writable |-> w]

\* Path.exists()
Exists(f, q) == q \in DOMAIN f
\* Path.is_dir()
IsDir(f, q) == q \in DOMAIN f /\ f[q].kind = "dir"

\* the filesystem f with node n at path q
WithNode(f, q, n) == [x \in (DOMAIN f) \cup {q} |-> IF x = q THEN n ELSE f[x]]

\* the longest prefix of q that exists (the root always does)
RECURSIVE DeepestExisting(_, _)
DeepestExisting(f, q) ==
    IF q \in DOMAIN f \/ q = <<>> THEN q ELSE DeepestExisting(f, Parent(q))

\* os.mkdir(q): "ok" or the errno it fails with
OsMkdir(f, q) ==
    IF q = <<>> THEN "EEXIST"
    ELSE IF ~Exists(f, Parent(q))
         THEN IF IsDir(f, DeepestExisting(f, q)) THEN "ENOENT" ELSE "ENOTDIR"
    ELSE IF ~IsDir(f, Parent(q)) THEN "ENOTDIR"
    ELSE IF Exists(f, q) THEN "EEXIST"
    ELSE IF ~f[Parent(q)].writable THEN "EACCES"
    ELSE "ok"

\* Path.mkdir(parents=True, exist_ok=True): ok and the resulting filesystem
RECURSIVE PathMkdir(_, _)
PathMkdir(f, q) ==
    LET e == OsMkdir(f, q) IN
    IF e = "ok" THEN [ok |-> TRUE, fs |-> WithNode(f, q, DirNode(TRUE))]
    ELSE IF e = "ENOENT"
         THEN LET r == PathMkdir(f, Parent(q)) IN
              IF ~r.ok THEN r
              ELSE IF OsMkdir(r.fs, q) = "ok"
                   THEN [ok |-> TRUE, fs |-> WithNode(r.fs, q, DirNode(TRUE))]
                   ELSE [ok |-> IsDir(r.fs, q), fs |-> r.fs]
    ELSE [ok |-> IsDir(f, q), fs |-> f]

\* shutil.copy2(src, dst): ok and the resulting filesystem.  A destination
\* that is a directory receives the file under the source's own name; the
\* source is opened before the destination; the copy carries the source's
\* content and its permission bits.
ShutilCopy2(f, src, dst) ==
    LET to == IF IsDir(f, dst) THEN dst \o << src[Len(src)] >> ELSE dst IN
    IF ~Exists(f, src) \/ IsDir(f, src) THEN [ok |-> FALSE, fs |-> f]
    ELSE IF to = src THEN [ok |-> FALSE, fs |-> f]
    ELSE IF ~IsDir(f, Parent(to)) THEN [ok |-> FALSE, fs |-> f]
    ELSE IF IsDir(f, to) THEN [ok |-> FALSE, fs |-> f]
    ELSE IF Exists(f, to) /\ ~f[to].writable THEN [ok |-> FALSE, fs |-> f]
    ELSE IF ~Exists(f, to) /\ ~f[Parent(to)].writable THEN [ok |-> FALSE, fs |-> f]
    ELSE [ok |-> TRUE, fs |-> WithNode(f, to, FileNode(f[src].content, f[src].writable))]

(***************************************************************************)
(* The functions of export_resume.py.                                      *)
(***************************************************************************)
\* Python's None, and the value of a local that is not assigned yet
None == << "None" >>

ENV_FILE == CWD \o << <<".env">> >>
RESUME_PDF == CWD \o << <<"resume.pdf">> >>

BASE_DIR == << "BASE_DIR" >>
FIRST_NAME_KEY == << "FIRST_NAME" >>
LAST_NAME_KEY == << "LAST_NAME" >>

\* the loop over the lines of .env: the config dict after the last line
RECURSIVE ReadConfig(_, _)
ReadConfig(lines, config) ==
    IF lines = <<>> THEN config
    ELSE LET line == Strip(Head(lines)) IN
         IF line # <<>> /\ ~StartsWith(line, "#") /\ Contains(line, "=")
         THEN LET kv == SplitOnce(line, "=")
                  key == Strip(kv[1])
                  value == StripChars(Strip(kv[2]), Quotes)
              IN  ReadConfig(Tail(lines), (key :> value) @@ config)
         ELSE ReadConfig(Tail(lines), config)

\* 'KEY' not in config or not config['KEY']
MissingOrEmpty(config, key) == key \notin DOMAIN config \/ config[key] = <<>>

NoConfig == [exited |-> TRUE, base |-> PathOf(<<>>), first |-> None, last |-> None]

\* load_environment that tests LAST_NAME for presence only
load_environment_LastUnchecked(f) ==
    IF ~Exists(f, ENV_FILE) THEN NoConfig
    ELSE IF IsDir(f, ENV_FILE) THEN NoConfig
    ELSE LET config == ReadConfig(f[ENV_FILE].content, <<>>) IN
         IF MissingOrEmpty(config, BASE_DIR) THEN NoConfig
         ELSE IF MissingOrEmpty(config, FIRST_NAME_KEY) THEN NoConfig
         ELSE IF LAST_NAME_KEY \notin DOMAIN config THEN NoConfig
         ELSE [exited |-> FALSE, base |-> PathOf(config[BASE_DIR]),
               first |-> config[FIRST_NAME_KEY], last |-> config[LAST_NAME_KEY]]

load_environment(f) ==
    IF ~Exists(f, ENV_FILE) THEN NoConfig
    ELSE IF IsDir(f, ENV_FILE) THEN NoConfig
    ELSE LET config == ReadConfig(f[ENV_FILE].content, <<>>) IN
         IF MissingOrEmpty(config, BASE_DIR) THEN NoConfig
         ELSE IF MissingOrEmpty(config, FIRST_NAME_KEY) THEN NoConfig
         ELSE IF MissingOrEmpty(config, LAST_NAME_KEY) THEN NoConfig
         ELSE [exited |-> FALSE, base |-> PathOf(config[BASE_DIR]),
               first |-> config[FIRST_NAME_KEY], last |-> config[LAST_NAME_KEY]]

\* what the git subprocess did: it printed stdout and returned 0, it returned
\* non-zero (CalledProcessError), or there is no git (FileNotFoundError)
GitOk(out) == [kind |-> "ok", stdout |-> out]
GitFails == {[kind |-> "CalledProcessError", stdout |-> <<>>],
             [kind |-> "FileNotFoundError", stdout |-> <<>>]}

\* get_git_branch without the except clause's fallback label
get_git_branch_NoFallback(git) == Strip(git.stdout)

get_git_branch(git) ==
    IF git.kind = "ok" THEN Strip(git.stdout) ELSE << "unknown" >>

Digit(n) == << "0", "1", "2", "3", "4", "5", "6", "7", "8", "9" >>[n + 1]
Pad2(n) == << Digit(n \div 10), Digit(n % 10) >>

\* now.strftime("%d-%m-%y")
Strftime_DayFirst(now) ==
    Pad2(now.d) \o << "-" >> \o Pad2(now.m) \o << "-" >> \o Pad2(now.y % 100)

\* now.strftime("%m-%d-%y")
Strftime(now) == Pad2(now.m) \o << "-" >> \o Pad2(now.d) \o << "-" >> \o Pad2(now.y % 100)

get_default_directory_name(git, now) ==
    get_git_branch(git) \o << " " >> \o Strftime(now)

check_resume_exists(f) == Exists(f, RESUME_PDF)

\* the target path, or <<>> for None, and the resulting filesystem
create_directory(f, base_path, name) ==
    LET target_path == PathJoin(base_path, name)
        r == PathMkdir(f, Resolve(target_path))
    IN  [target |-> IF r.ok THEN << target_path >> ELSE <<>>, fs |-> r.fs]

\* f"{first_name}_{last_name}_resume.pdf"
OutputFileName(first, last) == first \o << "_" >> \o last \o << "_resume.pdf" >>

TargetFile(target, first, last) == PathJoin(target, OutputFileName(first, last))

copy_resume(f, target, first, last) ==
    ShutilCopy2(f, RESUME_PDF, Resolve(TargetFile(target, first, last)))

(***************************************************************************)
(* The state: the filesystem, the position of main() and its locals, what  *)
(* the last git query and the last clock reading returned, and the record  *)
(* of the run so far.                                                      *)
(***************************************************************************)
VARIABLES
    fs,            \* the filesystem
    pc,            \* the statement of main() that runs next, or "exited"
    exit_code,     \* the exit status of the process once pc = "exited"
    exit_at,       \* the statement that ended the run
    OUTPUT_BASE,   \* locals of main()
    FIRST_NAME,
    LAST_NAME,
    default_name,
    typed,         \* the line input() returned, or EOF
    user_input,
    dir_name,
    target_dir,    \* << path >>, or <<>> for None
    git,           \* outcome of the last git query
    today,         \* the last reading of the clock
    runs,          \* runs of main() started so far
    fs_start,      \* the filesystem when the current run started
    prev           \* how the previous run ended

vars == << fs, pc, exit_code, exit_at, OUTPUT_BASE, FIRST_NAME, LAST_NAME,
           default_name, typed, user_input, dir_name, target_dir, git, today, runs,
           fs_start, prev >>

locals == << OUTPUT_BASE, FIRST_NAME, LAST_NAME, default_name, typed, user_input,
             dir_name, target_dir >>

(***************************************************************************)
(* The inputs of the model.                                                *)
(***************************************************************************)
InputChars == {" ", "a", "/"}

\* the lines the user can type at the prompt
InputLines == UNION {[1..n -> InputChars] : n \in 0..MaxLen}

\* input() raises EOFError when standard input is at its end
EOF == << "EOF" >>

GitOutcomes == {GitOk(<< "m", "\n" >>), GitOk(<< "f", "/", "m", "\n" >>)} \cup GitFails

Dates == {[y |-> 2026, m |-> 1, d |-> 9], [y |-> 2026, m |-> 11, d |-> 5]}

\* before the first query and the first reading of a run
NoQuery == GitOk(<<>>)
NoDate == [y |-> 0, m |-> 0, d |-> 0]

\* the clock does not run backwards
NotBefore(d, e) ==
    \/ d.y > e.y
    \/ d.y = e.y /\ d.m > e.m
    \/ d.y = e.y /\ d.m = e.m /\ d.d >= e.d

\* lines of a .env file
LineBase == << "BASE_DIR", "=", "/", "a" >>
LineBaseRelative == << "BASE_DIR", "=", "a" >>
LineBaseQuoted == << " ", "BASE_DIR", " ", "=", " ", "'", "/", "a", "'" >>
LineBaseEmpty == << "BASE_DIR", "=", " " >>
LineFirst == << "FIRST_NAME", "=", "a" >>
LineFirstSlash == << "FIRST_NAME", "=", "a", "/", "a" >>
LineLast == << "LAST_NAME", "=", "\"", "a", "\"", "\n" >>
LineLastEmpty == << "LAST_NAME", "=", "'", "'" >>
LineComment == << "#", "FIRST_NAME", "=", "a" >>
LineNoEquals == << "BASE_DIR" >>

\* the subsequences of a sequence of lines
RECURSIVE SubFiles(_)
SubFiles(lines) ==
    IF lines = <<>> THEN {<<>>}
    ELSE LET rest == SubFiles(Tail(lines)) IN
         rest \cup {<< Head(lines) >> \o r : r \in rest}

EnvTemplate == << LineBaseEmpty, LineComment, LineBaseQuoted, LineFirst,
                  LineNoEquals, LineLast, LineLastEmpty >>

Empty == [x \in {} |-> DirNode(TRUE)]

\* the root, which the user cannot write to, and the working directory
RootFs == (<<>> :> DirNode(FALSE)) @@ (CWD :> DirNode(TRUE))

ResumeStates ==
    { Empty,
      RESUME_PDF :> DirNode(TRUE),
      RESUME_PDF :> FileNode(<< "c1" >>, TRUE),
      RESUME_PDF :> FileNode(<< "c1" >>, FALSE) }

EnvStates ==
    { Empty,
      ENV_FILE :> DirNode(TRUE),
      ENV_FILE :> FileNode(<< LineBase, LineFirst, LineLast >>, TRUE),
      ENV_FILE :> FileNode(<< LineBase, LineFirstSlash, LineLast >>, TRUE),
      ENV_FILE :> FileNode(<< LineBaseRelative, LineFirst, LineLast >>, TRUE) }

\* the directory that BASE_DIR names in the .env files above, and what can
\* be there before the first run
A == << "a" >>
BasePath == << A >>
BaseStates ==
    { Empty,
      BasePath :> FileNode(<< "x" >>, TRUE),
      BasePath :> DirNode(TRUE),
      BasePath :> DirNode(FALSE),
      (BasePath :> DirNode(TRUE)) @@ (<< A, A >> :> FileNode(<< "x" >>, TRUE)),
      (BasePath :> DirNode(TRUE)) @@ (<< A, A >> :> DirNode(TRUE))
          @@ (<< A, A, OutputFileName(A, A) >> :> DirNode(TRUE)) }

InitialFs ==
    { RootFs @@ r @@ e @@ b : r \in ResumeStates, e \in EnvStates, b \in BaseStates }
    \cup
    { RootFs @@ (RESUME_PDF :> FileNode(<< "c1" >>, TRUE))
             @@ (ENV_FILE :> FileNode(lines, TRUE))
             @@ (BasePath :> DirNode(TRUE)) : lines \in SubFiles(EnvTemplate) }

NoRun == [exit_code |-> 0, dir_name |-> None, fs |-> Empty]

Init ==
    /\ fs \in InitialFs
    /\ fs_start = fs
    /\ pc = "check_resume_exists"
    /\ exit_code = 0
    /\ exit_at = "running"
    /\ OUTPUT_BASE = PathOf(<<>>)
    /\ FIRST_NAME = None
    /\ LAST_NAME = None
    /\ default_name = None
    /\ typed = None
    /\ user_input = None
    /\ dir_name = None
    /\ target_dir = <<>>
    /\ git = NoQuery
    /\ today = NoDate
    /\ runs = 1
    /\ prev = NoRun

(***************************************************************************)
(* main(), statement by statement.                                         *)
(***************************************************************************)
\* sys.exit(1) at the statement named by where
SysExit(where) ==
    /\ pc' = "exited"
    /\ exit_code' = 1
    /\ exit_at' = where

\* CheckResume without the sys.exit(1) of line 160
CheckResume_NoExit ==
    /\ pc = "check_resume_exists"
    /\ pc' = "load_environment"
    /\ UNCHANGED << fs, exit_code, exit_at, locals, git, today, runs, fs_start, prev >>

\* lines 158-160
CheckResume ==
    /\ pc = "check_resume_exists"
    /\ IF check_resume_exists(fs)
       THEN pc' = "load_environment" /\ UNCHANGED << exit_code, exit_at >>
       ELSE SysExit("check_resume_exists")
    /\ UNCHANGED << fs, locals, git, today, runs, fs_start, prev >>

\* lines 162-168
LoadEnvironment ==
    /\ pc = "load_environment"
    /\ LET r == load_environment(fs) IN
       IF r.exited
       THEN SysExit("load_environment")
            /\ UNCHANGED << OUTPUT_BASE, FIRST_NAME, LAST_NAME >>
       ELSE /\ pc' = "check_base"
            /\ OUTPUT_BASE' = r.base
            /\ FIRST_NAME' = r.first
            /\ LAST_NAME' = r.last
            /\ UNCHANGED << exit_code, exit_at >>
    /\ UNCHANGED << fs, default_name, typed, user_input, dir_name, target_dir,
                    git, today, runs, fs_start, prev >>

\* CheckBase without the sys.exit(1) of line 174
CheckBase_NoExit ==
    /\ pc = "check_base"
    /\ pc' = "prompt"
    /\ UNCHANGED << fs, exit_code, exit_at, locals, git, today, runs, fs_start, prev >>

\* CheckBase that tries to make the missing base directory before it gives up
CheckBase_Makedirs ==
    /\ pc = "check_base"
    /\ IF Exists(fs, Resolve(OUTPUT_BASE))
       THEN pc' = "prompt" /\ UNCHANGED << fs, exit_code, exit_at >>
       ELSE fs' = PathMkdir(fs, Resolve(OUTPUT_BASE)).fs /\ SysExit("check_base")
    /\ UNCHANGED << locals, git, today, runs, fs_start, prev >>

\* lines 170-174
CheckBase ==
    /\ pc = "check_base"
    /\ IF Exists(fs, Resolve(OUTPUT_BASE))
       THEN pc' = "prompt" /\ UNCHANGED << exit_code, exit_at >>
       ELSE SysExit("check_base")
    /\ UNCHANGED << fs, locals, git, today, runs, fs_start, prev >>

\* lines 176-180: the default name is computed and shown, then a line is read
Prompt ==
    /\ pc = "prompt"
    /\ \E g \in GitOutcomes, d \in {e \in Dates : NotBefore(e, today)},
          line \in InputLines \cup {EOF} :
          /\ git' = g
          /\ today' = d
          /\ default_name' = get_default_directory_name(g, d)
          /\ typed' = line
          /\ IF line = EOF
             THEN SysExit("input") /\ UNCHANGED user_input
             ELSE /\ user_input' = Strip(line)
                  /\ pc' = "choose_name"
                  /\ UNCHANGED << exit_code, exit_at >>
    /\ UNCHANGED << fs, OUTPUT_BASE, FIRST_NAME, LAST_NAME, dir_name,
                    target_dir, runs, fs_start, prev >>

\* ChooseName with the test of line 182 inverted
ChooseName_Inverted ==
    /\ pc = "choose_name"
    /\ IF user_input # <<>>
       THEN \E g \in GitOutcomes, d \in {e \in Dates : NotBefore(e, today)} :
               /\ git' = g
               /\ today' = d
               /\ dir_name' = get_default_directory_name(g, d)
       ELSE /\ dir_name' = user_input
            /\ UNCHANGED << git, today >>
    /\ pc' = "create_directory"
    /\ UNCHANGED << fs, exit_code, exit_at, OUTPUT_BASE, FIRST_NAME, LAST_NAME,
                    default_name, typed, user_input, target_dir, runs, fs_start,
                    prev >>

\* lines 182-186
ChooseName ==
    /\ pc = "choose_name"
    /\ IF user_input = <<>>
       THEN \E g \in GitOutcomes, d \in {e \in Dates : NotBefore(e, today)} :
               /\ git' = g
               /\ today' = d
               /\ dir_name' = get_default_directory_name(g, d)
       ELSE /\ dir_name' = user_input
            /\ UNCHANGED << git, today >>
    /\ pc' = "create_directory"
    /\ UNCHANGED << fs, exit_code, exit_at, OUTPUT_BASE, FIRST_NAME, LAST_NAME,
                    default_name, typed, user_input, target_dir, runs, fs_start,
                    prev >>

\* lines 188-191
CreateDirectory ==
    /\ pc = "create_directory"
    /\ LET r == create_directory(fs, OUTPUT_BASE, dir_name) IN
       /\ fs' = r.fs
       /\ target_dir' = r.target
       /\ IF r.target = <<>>
          THEN SysExit("create_directory")
          ELSE pc' = "copy_resume" /\ UNCHANGED << exit_code, exit_at >>
    /\ UNCHANGED << OUTPUT_BASE, FIRST_NAME, LAST_NAME, default_name, typed,
                    user_input, dir_name, git, today, runs, fs_start, prev >>

\* CopyResume without the sys.exit(1) of line 198
CopyResume_NoExit ==
    /\ pc = "copy_resume"
    /\ fs' = copy_resume(fs, target_dir[1], FIRST_NAME, LAST_NAME).fs
    /\ pc' = "exited"
    /\ exit_at' = "end"
    /\ UNCHANGED << exit_code, locals, git, today, runs, fs_start, prev >>

\* lines 193-198
CopyResume ==
    /\ pc = "copy_resume"
    /\ LET r == copy_resume(fs, target_dir[1], FIRST_NAME, LAST_NAME) IN
       /\ fs' = r.fs
       /\ IF r.ok
          THEN pc' = "exited" /\ exit_at' = "end" /\ UNCHANGED exit_code
          ELSE SysExit("copy_resume")
    /\ UNCHANGED << locals, git, today, runs, fs_start, prev >>

(***************************************************************************)
(* Between two runs the resume may be compiled again, which rewrites       *)
(* resume.pdf in place; then the tool is started again.                    *)
(***************************************************************************)
\* resume.pdf of filesystem f after another compilation
Recompiled(f) ==
    IF Exists(f, RESUME_PDF) /\ ~IsDir(f, RESUME_PDF)
    THEN [f EXCEPT ![RESUME_PDF].content = << "c2" >>]
    ELSE f

Rerun ==
    /\ pc = "exited"
    /\ runs < MaxRuns
    /\ \E f \in {fs, Recompiled(fs)} :
          /\ fs' = f
          /\ fs_start' = f
    /\ runs' = runs + 1
    /\ pc' = "check_resume_exists"
    /\ exit_code' = 0
    /\ exit_at' = "running"
    /\ OUTPUT_BASE' = PathOf(<<>>)
    /\ FIRST_NAME' = None
    /\ LAST_NAME' = None
    /\ default_name' = None
    /\ typed' = None
    /\ user_input' = None
    /\ dir_name' = None
    /\ target_dir' = <<>>
    /\ prev' = [exit_code |-> exit_code, dir_name |-> dir_name, fs |-> fs]
    /\ git' = NoQuery
    /\ today' = NoDate

\* one run of main()
Next ==
    \/ CheckResume
    \/ LoadEnvironment
    \/ CheckBase
    \/ Prompt
    \/ ChooseName
    \/ CreateDirectory
    \/ CopyResume

Spec == Init /\ [][Next]_vars

\* up to MaxRuns runs of main(), one after the other
NextRerun ==
    \/ Next
    \/ Rerun

SpecRerun == Init /\ [][NextRerun]_vars

(***************************************************************************)
(* Properties.                                                             *)
(***************************************************************************)
Exited == pc = "exited"

\* the config dict that the .env file of filesystem f yields
ConfigOf(f) == ReadConfig(f[ENV_FILE].content, <<>>)

\* .env is a readable file
HasEnvFile(f) == Exists(f, ENV_FILE) /\ ~IsDir(f, ENV_FILE)

\* .env yields non-empty BASE_DIR, FIRST_NAME and LAST_NAME
ValidConfig(f) ==
    /\ HasEnvFile(f)
    /\ \A key \in {BASE_DIR, FIRST_NAME_KEY, LAST_NAME_KEY} :
          key \in DOMAIN ConfigOf(f) /\ ConfigOf(f)[key] # <<>>

\* the base directory that .env names
BaseOf(f) == Resolve(PathOf(ConfigOf(f)[BASE_DIR]))

\* the run has not come to the prompt: nothing was shown and nothing was read
BeforePrompt == default_name = None /\ typed = None /\ dir_name = None /\ target_dir = <<>>

\* C3: when resume.pdf does not exist at the start of main(), the run ends
\* with exit code 1 at the source check: the configuration is never read, the
\* prompt never shown, and the filesystem stays as it was, whatever .env, the
\* base directory and the input are.
C3_MissingSourceExits ==
    ~Exists(fs_start, RESUME_PDF) =>
        /\ pc \in {"check_resume_exists", "exited"}
        /\ Exited => exit_code = 1
        /\ fs = fs_start
        /\ OUTPUT_BASE = PathOf(<<>>) /\ FIRST_NAME = None /\ LAST_NAME = None
        /\ BeforePrompt

\* C3's case: no resume.pdf, a valid configuration and an existing base
\* directory, and the run has ended
C3_Witness ==
    /\ Exited
    /\ ~Exists(fs_start, RESUME_PDF)
    /\ ValidConfig(fs_start)
    /\ IsDir(fs_start, BaseOf(fs_start))

\* .env is there and one of the three keys is absent or has an empty value
C4_BadConfig ==
    /\ HasEnvFile(fs_start)
    /\ \E key \in {BASE_DIR, FIRST_NAME_KEY, LAST_NAME_KEY} :
          key \notin DOMAIN ConfigOf(fs_start) \/ ConfigOf(fs_start)[key] = <<>>

\* C4: when one of BASE_DIR, FIRST_NAME, LAST_NAME is absent from .env or has
\* an empty value after whitespace and quote stripping, the run ends with exit
\* code 1 without reaching the prompt and the filesystem is unchanged.
C4_BadConfigExits ==
    C4_BadConfig =>
        /\ pc \in {"check_resume_exists", "load_environment", "exited"}
        /\ Exited => exit_code = 1
        /\ fs = fs_start
        /\ BeforePrompt

\* C4's case: BASE_DIR and FIRST_NAME are set, LAST_NAME is there with a value
\* that is empty once its quotes are stripped, and load_environment ended the run
C4_Witness ==
    /\ Exited
    /\ exit_at = "load_environment"
    /\ C4_BadConfig
    /\ BASE_DIR \in DOMAIN ConfigOf(fs_start) /\ ConfigOf(fs_start)[BASE_DIR] # <<>>
    /\ FIRST_NAME_KEY \in DOMAIN ConfigOf(fs_start)
    /\ ConfigOf(fs_start)[FIRST_NAME_KEY] # <<>>
    /\ LAST_NAME_KEY \in DOMAIN ConfigOf(fs_start)
    /\ LineLastEmpty = fs_start[ENV_FILE].content[Len(fs_start[ENV_FILE].content)]

\* C5: when the configuration is valid and the path BASE_DIR names does not
\* exist, the run ends with exit code 1 before the prompt, and the filesystem
\* is unchanged: the base directory is not created.
C5_MissingBaseExits ==
    (ValidConfig(fs_start) /\ ~Exists(fs_start, BaseOf(fs_start))) =>
        /\ pc \in {"check_resume_exists", "load_environment", "check_base", "exited"}
        /\ Exited => exit_code = 1
        /\ fs = fs_start
        /\ ~Exists(fs, BaseOf(fs_start))
        /\ BeforePrompt

\* C5's case: resume.pdf and a valid configuration, no base directory, and
\* the base check ended the run
C5_Witness ==
    /\ Exited
    /\ exit_at = "check_base"
    /\ Exists(fs_start, RESUME_PDF)
    /\ ValidConfig(fs_start)
    /\ ~Exists(fs_start, BaseOf(fs_start))

\* the text of the model's dates in the form mm-dd-yy
DateText(d) ==
    IF d = [y |-> 2026, m |-> 1, d |-> 9]
    THEN << "0", "1", "-", "0", "9", "-", "2", "6" >>
    ELSE << "1", "1", "-", "0", "5", "-", "2", "6" >>

\* the branch that the last git query reported: what git printed without the
\* newline that ends it, or the label "unknown" when the query failed
BranchText(g) ==
    IF g.kind = "ok" THEN SubSeq(g.stdout, 1, Len(g.stdout) - 1) ELSE << "unknown" >>

\* "<branch> <mm-dd-yy>" for the last git query and the last clock reading
DefaultText == BranchText(git) \o << " " >> \o DateText(today)

\* "<FIRST_NAME>_<LAST_NAME>_resume.pdf" for the values in .env
FileText ==
    ConfigOf(fs_start)[FIRST_NAME_KEY] \o << "_" >> \o ConfigOf(fs_start)[LAST_NAME_KEY]
        \o << "_resume.pdf" >>

\* a line was read and it is empty or whitespace only
BlankInput == typed \notin {None, EOF} /\ \A i \in 1..Len(typed) : typed[i] = " "

\* a line was read and it is not blank
NonBlankInput == typed \notin {None, EOF} /\ \E i \in 1..Len(typed) : typed[i] # " "

\* the file at path q holds the content of resume.pdf
HoldsResume(q) ==
    /\ Exists(fs, q)
    /\ fs[q].kind = "file"
    /\ Exists(fs, RESUME_PDF)
    /\ fs[q].content = fs[RESUME_PDF].content

\* where the copy into directory path p goes: the output file name under p,
\* or resume.pdf inside that path when it was a directory already
Destination(p) ==
    LET file == Resolve(PathJoin(p, FileText)) IN
    IF IsDir(fs_start, file) THEN file \o << <<"resume.pdf">> >> ELSE file

\* C1's precondition: resume.pdf, a valid configuration, the base directory,
\* and a blank line at the prompt
C1_Pre ==
    /\ Exists(fs_start, RESUME_PDF)
    /\ ValidConfig(fs_start)
    /\ Exists(fs_start, BaseOf(fs_start))
    /\ BlankInput

\* C1 as stated: with resume.pdf, a valid configuration, an existing base
\* directory and blank input, the run ends with exit code 0 and the base
\* directory contains a directory named "<branch> <mm-dd-yy>" that contains
\* "<FIRST_NAME>_<LAST_NAME>_resume.pdf" with the content of resume.pdf.
\* (Read in the claim's favour: resume.pdf is a regular file, the base is a
\* directory, and a name with "/" in it names the nested path.)
C1_AlwaysExported ==
    (Exited /\ C1_Pre /\ ~IsDir(fs_start, RESUME_PDF) /\ IsDir(fs_start, BaseOf(fs_start))) =>
        LET dir == PathJoin(PathOf(ConfigOf(fs_start)[BASE_DIR]), DefaultText) IN
        /\ exit_code = 0
        /\ IsDir(fs, Resolve(dir))
        /\ HoldsResume(Resolve(PathJoin(dir, FileText)))

\* C1 amended: under the same precondition the run can only fail in
\* create_directory or copy_resume; when it ends with exit code 0, the path
\* BASE_DIR / "<branch> <mm-dd-yy>" (branch and date as read after the input)
\* is a directory, a child of the base directory when the branch has no "/",
\* and the destination of the copy holds the content of resume.pdf.
C1_ExportedUnlessStepFails ==
    (Exited /\ C1_Pre) =>
        /\ exit_at \in {"create_directory", "copy_resume", "end"}
        /\ exit_code = 1 <=> exit_at \in {"create_directory", "copy_resume"}
        /\ exit_code = 0 =>
              LET dir == PathJoin(PathOf(ConfigOf(fs_start)[BASE_DIR]), DefaultText) IN
              /\ IsDir(fs, Resolve(dir))
              /\ ~Contains(DefaultText, "/") =>
                     Resolve(dir) = BaseOf(fs_start) \o << DefaultText >>
              /\ HoldsResume(Destination(dir))

\* C1's case: a whitespace-only line, and the run ended with exit code 0
C1_Witness ==
    /\ Exited
    /\ C1_Pre
    /\ typed = << " " >>
    /\ exit_code = 0

\* C2 as stated: for non-blank input D the directory that is created is named
\* exactly D under the base directory, nothing added to or removed from D.
\* (Read in the claim's favour: a D with "/" in it names the path
\* BASE_DIR / D.)
C2_NamedExactlyAsTyped ==
    (NonBlankInput /\ target_dir # <<>>) =>
        /\ dir_name = typed
        /\ Resolve(target_dir[1]) = Resolve(PathJoin(OUTPUT_BASE, typed))

\* C2 amended: for non-blank input D the directory that is created and
\* receives the copy is the path BASE_DIR / strip(D): D without its leading
\* and trailing whitespace, a child of the base directory named strip(D)
\* when strip(D) has no "/"; the default name is not computed again.
C2_NamedAsStripped ==
    (NonBlankInput /\ target_dir # <<>>) =>
        /\ dir_name = Strip(typed)
        /\ target_dir[1] = PathJoin(OUTPUT_BASE, Strip(typed))
        /\ IsDir(fs, Resolve(target_dir[1]))
        /\ ~Contains(Strip(typed), "/") =>
               Resolve(target_dir[1]) = Resolve(OUTPUT_BASE) \o << Strip(typed) >>
        /\ exit_at = "end" => HoldsResume(Destination(target_dir[1]))

\* C2's case: a name typed with a leading space, and the run ended with exit
\* code 0
C2_Witness ==
    /\ Exited
    /\ exit_code = 0
    /\ typed = << " ", "a" >>
    /\ target_dir # <<>>

\* C7: a run ends with exit code 0 or 1; with 1 when .env is missing, a
\* required key is missing or empty, resume.pdf is missing, the base directory
\* is missing, create_directory returned None or the copy was not made; with 0
\* only when the destination directory exists and holds the copy.
C7_ExitCodes ==
    Exited =>
        /\ exit_code \in {0, 1}
        /\ ~Exists(fs_start, ENV_FILE) => exit_code = 1
        /\ C4_BadConfig => exit_code = 1
        /\ ~Exists(fs_start, RESUME_PDF) => exit_code = 1
        /\ (ValidConfig(fs_start) /\ ~Exists(fs_start, BaseOf(fs_start))) => exit_code = 1
        /\ (dir_name # None /\ target_dir = <<>>) => exit_code = 1
        /\ (target_dir # <<>> /\ ~HoldsResume(Destination(target_dir[1]))) => exit_code = 1
        /\ exit_code = 0 =>
              /\ target_dir # <<>>
              /\ IsDir(fs, Resolve(target_dir[1]))
              /\ HoldsResume(Destination(target_dir[1]))

\* C7's case: the directory was created, the copy failed, and the run ended
C7_Witness ==
    /\ Exited
    /\ exit_at = "copy_resume"
    /\ target_dir # <<>>
    /\ ~Exists(fs_start, Resolve(target_dir[1]))
    /\ ~HoldsResume(Destination(target_dir[1]))

\* C8: a failing git query is not fatal: the branch is the label "unknown",
\* so the name shown is "unknown <mm-dd-yy>", and with blank input the name
\* used is "unknown <mm-dd-yy>", the run goes on to create_directory and
\* copy_resume, and on success that directory is in the base directory.
C8_GitFailureNotFatal ==
    /\ (pc = "choose_name" /\ git \in GitFails) =>
           default_name = << "unknown", " " >> \o DateText(today)
    /\ (dir_name # None /\ user_input = <<>> /\ git \in GitFails) =>
           /\ dir_name = << "unknown", " " >> \o DateText(today)
           /\ pc \in {"create_directory", "copy_resume", "exited"}
           /\ Exited => exit_at \in {"create_directory", "copy_resume", "end"}
           /\ exit_at = "end" =>
                  /\ exit_code = 0
                  /\ IsDir(fs, Resolve(OUTPUT_BASE)
                                   \o << << "unknown", " " >> \o DateText(today) >>)

\* C8's case: there is no git, the input was blank, and the run ended with
\* exit code 0
C8_Witness ==
    /\ Exited
    /\ exit_code = 0
    /\ user_input = <<>>
    /\ git.kind = "FileNotFoundError"

\* C9 as stated: a run that ends with exit code 1 leaves the filesystem as it
\* was when the run started.
C9_FailedRunChangesNothing ==
    (Exited /\ exit_code = 1) => fs = fs_start

\* C9 amended: a run that ends with exit code 1 before create_directory is
\* called (no resume.pdf, no usable configuration, no base directory, no
\* input) leaves the filesystem as it was when the run started; a run that
\* fails in copy_resume leaves the directory that create_directory returned.
C9_EarlyFailureChangesNothing ==
    /\ (Exited /\ exit_at \in {"check_resume_exists", "load_environment", "check_base", "input"}) =>
           /\ exit_code = 1
           /\ fs = fs_start
    /\ (Exited /\ exit_at = "copy_resume") =>
           /\ exit_code = 1
           /\ IsDir(fs, Resolve(target_dir[1]))

\* C9's case: standard input was at its end, and the run ended at the prompt
C9_Witness ==
    /\ Exited
    /\ exit_at = "input"
    /\ typed = EOF
    /\ exit_code = 1

\* C10: with blank input the directory name that is used is the default name
\* that was shown in the prompt.
C10_UsesNameShown ==
    (dir_name # None /\ user_input = <<>>) => dir_name = default_name

\* C6: when a run ended with exit code 0 and the next run uses the same
\* directory name, that run ends with exit code 0 as well, the destination
\* file holds the content of resume.pdf, and when resume.pdf did not change
\* in between the filesystem is the one the first run left.
C6_RerunIdempotent ==
    (Exited /\ runs > 1 /\ prev.exit_code = 0 /\ dir_name # None
            /\ dir_name = prev.dir_name) =>
        /\ exit_code = 0
        /\ HoldsResume(Destination(target_dir[1]))
        /\ fs_start = prev.fs => fs = prev.fs

====
